---- MODULE Spec2Model ----
(***************************************************************************)
(* Model of the hiring-plan front end (Frontend/src/App.jsx): the React    *)
(* component state, the user-event handlers and the asynchronous runs      *)
(* (analyzeRole / createHiringPlan) they start.  A run is suspended at a   *)
(* timer (simulateToolExecution) or at a fetch; every action below is one  *)
(* macrotask of the browser's event loop: a user event, a timer firing or  *)
(* a response arriving, together with all the synchronous code and         *)
(* microtask continuations that follow it.                                 *)
(***************************************************************************)
EXTENDS Integers, Sequences, FiniteSets, TLC

VARIABLES
    currentStep,            \* useState(0)
    roleDescription,        \* useState('')
    clarificationQuestions, \* useState([])
    clarificationAnswers,   \* useState('')
    hiringPlan,             \* useState(null)
    loading,                \* useState(false)
    error,                  \* useState('')
    activeTools,            \* useState([])
    toolExecutionLog,       \* useState([])
    showToolVisualization,  \* useState(false)
    runs,                   \* the pending async handler invocations
    analyzedRole,           \* role_description of the analysis behind step 1
    renderedStages          \* what the Interview Process section has rendered

vars == <<currentStep, roleDescription, clarificationQuestions,
          clarificationAnswers, hiringPlan, loading, error, activeTools,
          toolExecutionLog, showToolVisualization, runs, analyzedRole,
          renderedStages>>

-----------------------------------------------------------------------------
(* Bounds *)

MaxRuns == 2         \* handler invocations that may be pending at once
MaxRoleLen == 1      \* characters in the role description field
MaxAnswerLen == 1    \* characters in the answers field
MaxQuestions == 1    \* questions in an analysis response
MaxStages == 2       \* entries of interview_stages given to formatInterviewStages

-----------------------------------------------------------------------------
(* Texts: JavaScript strings as sequences of characters *)

Chars == {" ", "x"}

AnswerChars == {"x"}

Whitespace == {" "}

TextsUpTo(alphabet, n) == UNION {[1..k -> alphabet] : k \in 0..n}

EmptyText == <<>>

RECURSIVE TrimStart(_)
TrimStart(s) ==
    IF s # <<>> /\ Head(s) \in Whitespace THEN TrimStart(Tail(s)) ELSE s

RECURSIVE TrimEnd(_)
TrimEnd(s) ==
    IF s # <<>> /\ s[Len(s)] \in Whitespace
    THEN TrimEnd(SubSeq(s, 1, Len(s) - 1))
    ELSE s

\* String.prototype.trim
Trim(s) == TrimEnd(TrimStart(s))

\* JavaScript truthiness of a string: only '' is falsy
Truthy(s) == s # EmptyText

\* encodeURIComponent on the modelled alphabet: a space becomes %20
EncodeChar(c) == IF c = " " THEN <<"%", "2", "0">> ELSE <<c>>

RECURSIVE EncodeURIComponent(_)
EncodeURIComponent(s) ==
    IF s = <<>> THEN <<>>
    ELSE EncodeChar(Head(s)) \o EncodeURIComponent(Tail(s))

RoleTexts == TextsUpTo(Chars, MaxRoleLen)

AnswerTexts == TextsUpTo(AnswerChars, MaxAnswerLen)

-----------------------------------------------------------------------------
(* Values *)

Null == [null |-> TRUE]

QuestionLists == UNION {[1..k -> {"q"}] : k \in 0..MaxQuestions}

\* What POST /api/analyze-role can come back with: a rejected fetch, a
\* non-OK status, or a JSON body whose questions list may be absent.
AnalyzeResponses ==
    {[outcome |-> o, needs_clarification |-> FALSE, has_questions |-> FALSE,
      questions |-> <<>>] : o \in {"rejected", "not_ok"}}
    \cup
    {[outcome |-> "ok", needs_clarification |-> n, has_questions |-> TRUE,
      questions |-> q] : n \in BOOLEAN, q \in QuestionLists}
    \cup
    {[outcome |-> "ok", needs_clarification |-> n, has_questions |-> FALSE,
      questions |-> <<>>] : n \in BOOLEAN}

\* The values interview_stages can hold: an array whose entries are bare
\* strings (typeof stage === 'string') or stage objects, no value at all,
\* or a value that is not an array
StageString(s) == [type |-> "string", str |-> s]

StageObject(n, p, q) ==
    [type |-> "object", stage_name |-> n, purpose |-> p, questions |-> q]

StageArray(items) == [kind |-> "array", items |-> items]

MissingStages == [kind |-> "undefined", items |-> <<>>]

NonSequenceStages == [kind |-> "object", items |-> <<>>]

CompletePlan ==
    [job_description |-> "jd", sourcing_channels |-> <<"channel">>,
     interview_stages |-> StageArray(<<StageString("screen")>>),
     final_plan_summary |-> "summary"]

PartialPlan ==
    [job_description |-> "jd", sourcing_channels |-> <<"channel">>,
     interview_stages |-> StageArray(<<StageString("screen")>>),
     final_plan_summary |-> "<null>"]

PlanBodies == {CompletePlan, PartialPlan}

\* What POST /api/create-hiring-plan can come back with
PlanResponses ==
    {[outcome |-> o, body |-> Null] : o \in {"rejected", "not_ok"}}
    \cup {[outcome |-> "ok", body |-> p] : p \in PlanBodies}

AnalyzeError == "Failed to analyze role description. Please try again."

PlanError == "Failed to create hiring plan. Please try again."

AnalyzeTool ==
    [name |-> "analyze_role_for_clarification",
     desc |-> "Analyzing role description for missing details"]

toolSequence ==
    << [name |-> "create_job_description",
        desc |-> "Creating comprehensive job description"],
       [name |-> "suggest_sourcing_channels",
        desc |-> "Identifying optimal sourcing channels"],
       [name |-> "design_interview_process",
        desc |-> "Designing multi-stage interview process"],
       [name |-> "create_hiring_plan_summary",
        desc |-> "Compiling final hiring plan summary"] >>

-----------------------------------------------------------------------------
(* Tool log helpers *)

\* addToolToLog: the entry appended to toolExecutionLog
addToolToLog(log, toolName, status, description) ==
    Append(log, [tool |-> toolName, status |-> status,
                 description |-> description])

\* simulateToolExecution up to its await: the tool becomes active
SimStartActive(active, tool) == Append(active, tool.name)

SimStartLog(log, tool) == addToolToLog(log, tool.name, "running", <<tool.desc>>)

\* simulateToolExecution after its await: every entry of that name is removed
SimEndActive(active, tool) == SelectSeq(active, LAMBDA t : t # tool.name)

\* Faulty variant used to test C17: the completion of a step is not logged
SimEndLog_Silent(log, tool) == log

SimEndLog(log, tool) ==
    addToolToLog(log, tool.name, "completed", <<tool.desc, " - Completed">>)

\* Faulty variant used to test C4: the loop skips a step
NextToolIndex_Skip(k) == k + 2

\* the for...of loop over toolSequence: the step that follows step k
NextToolIndex(k) == k + 1

-----------------------------------------------------------------------------
(* Runs: pending invocations of handleRoleSubmit / handleCreateHiringPlan *)

RunIds == 1..MaxRuns

IdleRun ==
    [pc |-> "idle", k |-> 0, role |-> <<>>, answers |-> <<>>,
     via |-> "none", analyzed |-> <<>>, hist |-> <<>>]

HasFreeRun == \E r \in RunIds : runs[r].pc = "idle"

FreeRun == CHOOSE r \in RunIds :
    /\ runs[r].pc = "idle"
    /\ \A q \in RunIds : runs[q].pc = "idle" => r <= q

NotRendered == [done |-> FALSE, stages |-> <<>>]

Init ==
    /\ currentStep = 0
    /\ roleDescription = EmptyText
    /\ clarificationQuestions = <<>>
    /\ clarificationAnswers = EmptyText
    /\ hiringPlan = Null
    /\ loading = FALSE
    /\ error = ""
    /\ activeTools = <<>>
    /\ toolExecutionLog = <<>>
    /\ showToolVisualization = FALSE
    /\ runs = [r \in RunIds |-> IdleRun]
    /\ analyzedRole = EmptyText
    /\ renderedStages = NotRendered

-----------------------------------------------------------------------------
(* Pieces of the handlers *)

\* The Analyze Role button is enabled (disabled={loading || !trim}) and
\* handleRoleSubmit passes its guard
CanSubmitRole(role, isLoading) == ~isLoading /\ Trim(role) # EmptyText

\* Faulty variant used to test C1: the branch tests needs_clarification alone
NeedsClarificationStep_FlagOnly(analysis) == analysis.needs_clarification

\* Faulty variant used to test C2: the length test accepts an empty list
NeedsClarificationStep_GeqZero(analysis) ==
    analysis.needs_clarification /\ Len(analysis.questions) >= 0

\* handleRoleSubmit: the branch that shows the clarification step
NeedsClarificationStep(analysis) ==
    analysis.needs_clarification /\ Len(analysis.questions) > 0

\* handleRoleSubmit: analysis.questions.length of an absent list throws a
\* TypeError, which the handler's catch turns into the analysis error
AnalysisThrows(analysis) ==
    analysis.needs_clarification /\ ~analysis.has_questions

\* fetch rejected or !response.ok
ResponseFailed(resp) == resp.outcome # "ok"

\* createHiringPlan: the query string of the request URL
CreatePlanQuery(answers) ==
    IF Truthy(answers)
    THEN [has_answers |-> TRUE,
          clarification_answers |-> EncodeURIComponent(answers)]
    ELSE [has_answers |-> FALSE, clarification_answers |-> <<>>]

\* The answers handleCreateHiringPlan passes on when called from the Skip
\* Questions button: the handler reads the clarificationAnswers state
SkipAnswers(answers) == answers

\* The Create Hiring Plan button is enabled (disabled={loading})
CanSubmitAnswers(isLoading) == ~isLoading

\* The Skip Questions button carries no disabled attribute
CanSkip(isLoading) == TRUE

\* Faulty variant used to test C21: a plan already stored is kept
StoredPlan_KeepFirst(old, resp) == IF old = Null THEN resp.body ELSE old

\* Faulty variant used to test C19: the response body is not stored
StoredPlan_Dropped(old, resp) == old

\* handleCreateHiringPlan, success: what is stored as the plan
StoredPlan(old, resp) == resp.body

\* Faulty variant used to test C6: the catch branch stores the failed call's body as the plan
PlanAfterFailure_StoresBody(old, resp) == resp.body

\* handleCreateHiringPlan, failure: the plan state is not written
PlanAfterFailure(old, resp) == old

\* Faulty variant used to test C10: resetFlow leaves the answers field as it is
ResetAnswers_Kept(old) == old

\* resetFlow: setClarificationAnswers('')
ResetAnswers(old) == EmptyText

\* Faulty variant used to test C18: the catch branch leaves the request pending
RunAfterFailure_Retry(run) == run

\* catch and finally of handleRoleSubmit / handleCreateHiringPlan: the
\* invocation ends, nothing is sent again
RunAfterFailure(run) == IdleRun

\* handleCreateHiringPlan up to the first await of createHiringPlan, run as
\* invocation r with the role and answers of the calling closure
StartPlan(r, via, role, answers, analyzed) ==
    /\ loading' = TRUE
    /\ error' = ""
    /\ showToolVisualization' = TRUE
    /\ toolExecutionLog' = SimStartLog(<<>>, toolSequence[1])
    /\ activeTools' = SimStartActive(activeTools, toolSequence[1])
    /\ runs' = [runs EXCEPT ![r] =
                 [pc |-> "tool", k |-> 1, role |-> role, answers |-> answers,
                  via |-> via, analyzed |-> analyzed,
                  hist |-> <<<<toolSequence[1].name, "running">>>>]]

-----------------------------------------------------------------------------
(* User events *)

\* onChange of the role description textarea (rendered at step 0)
EditRoleDescription(t) ==
    /\ UNCHANGED renderedStages
    /\ currentStep = 0
    /\ roleDescription' = t
    /\ UNCHANGED <<currentStep, clarificationQuestions, clarificationAnswers,
                   hiringPlan, loading, error, activeTools, toolExecutionLog,
                   showToolVisualization, runs, analyzedRole>>

\* onChange of the answers textarea (rendered at step 1)
EditClarificationAnswers(t) ==
    /\ UNCHANGED renderedStages
    /\ currentStep = 1
    /\ clarificationAnswers' = t
    /\ UNCHANGED <<currentStep, roleDescription, clarificationQuestions,
                   hiringPlan, loading, error, activeTools, toolExecutionLog,
                   showToolVisualization, runs, analyzedRole>>

\* handleRoleSubmit up to the first await of analyzeRole
RoleSubmit ==
    /\ UNCHANGED renderedStages
    /\ currentStep = 0
    /\ CanSubmitRole(roleDescription, loading)
    /\ HasFreeRun
    /\ loading' = TRUE
    /\ error' = ""
    /\ showToolVisualization' = TRUE
    /\ toolExecutionLog' = SimStartLog(<<>>, AnalyzeTool)
    /\ activeTools' = SimStartActive(activeTools, AnalyzeTool)
    /\ runs' = [runs EXCEPT ![FreeRun] =
                 [pc |-> "analyzeTool", k |-> 0, role |-> roleDescription,
                  answers |-> clarificationAnswers, via |-> "bypass",
                  analyzed |-> EmptyText,
                  hist |-> <<<<AnalyzeTool.name, "running">>>>]]
    /\ UNCHANGED <<currentStep, roleDescription, clarificationQuestions,
                   clarificationAnswers, hiringPlan, analyzedRole>>

\* handleClarificationSubmit: the Create Hiring Plan button of step 1
ClarificationSubmit ==
    /\ UNCHANGED renderedStages
    /\ currentStep = 1
    /\ CanSubmitAnswers(loading)
    /\ HasFreeRun
    /\ StartPlan(FreeRun, "answers", roleDescription, clarificationAnswers,
                 analyzedRole)
    /\ UNCHANGED <<currentStep, roleDescription, clarificationQuestions,
                   clarificationAnswers, hiringPlan, analyzedRole>>

\* The Skip Questions button of step 1: onClick={() => handleCreateHiringPlan()}
SkipQuestions ==
    /\ UNCHANGED renderedStages
    /\ currentStep = 1
    /\ CanSkip(loading)
    /\ HasFreeRun
    /\ StartPlan(FreeRun, "skip", roleDescription,
                 SkipAnswers(clarificationAnswers), analyzedRole)
    /\ UNCHANGED <<currentStep, roleDescription, clarificationQuestions,
                   clarificationAnswers, hiringPlan, analyzedRole>>

\* resetFlow: the Create Another Plan button, rendered with the plan
\* (currentStep === 2 && hiringPlan)
ResetFlow ==
    /\ UNCHANGED renderedStages
    /\ currentStep = 2
    /\ hiringPlan # Null
    /\ currentStep' = 0
    /\ roleDescription' = EmptyText
    /\ clarificationQuestions' = <<>>
    /\ clarificationAnswers' = ResetAnswers(clarificationAnswers)
    /\ hiringPlan' = Null
    /\ error' = ""
    /\ showToolVisualization' = FALSE
    /\ toolExecutionLog' = <<>>
    /\ activeTools' = <<>>
    /\ analyzedRole' = EmptyText
    /\ UNCHANGED <<loading, runs>>

-----------------------------------------------------------------------------
(* Continuations of the pending runs *)

\* The answers a bypassing handleRoleSubmit hands to createHiringPlan: the
\* clarificationAnswers of the closure the submit was clicked in
BypassAnswers(run) == run.answers

\* The role description handleCreateHiringPlan hands to createHiringPlan
PlanRole(run) == run.role

\* analyzeRole after the simulated delay: the tool is logged completed and
\* POST /api/analyze-role is sent with the role description of the closure
AnalyzeToolDone(r) ==
    /\ UNCHANGED renderedStages
    /\ runs[r].pc = "analyzeTool"
    /\ activeTools' = SimEndActive(activeTools, AnalyzeTool)
    /\ toolExecutionLog' = SimEndLog(toolExecutionLog, AnalyzeTool)
    /\ runs' = [runs EXCEPT ![r].pc = "analyzeFetch",
                            ![r].analyzed = runs[r].role,
                            ![r].hist = Append(@, <<AnalyzeTool.name, "completed">>)]
    /\ UNCHANGED <<currentStep, roleDescription, clarificationQuestions,
                   clarificationAnswers, hiringPlan, loading, error,
                   showToolVisualization, analyzedRole>>

\* handleRoleSubmit after await analyzeRole(...)
AnalyzeResponse(r, resp) ==
    /\ UNCHANGED renderedStages
    /\ runs[r].pc = "analyzeFetch"
    /\ IF ResponseFailed(resp) \/ AnalysisThrows(resp)
       THEN /\ error' = AnalyzeError
            /\ loading' = FALSE
            /\ runs' = [runs EXCEPT ![r] = RunAfterFailure(runs[r])]
            /\ UNCHANGED <<currentStep, roleDescription,
                           clarificationQuestions, clarificationAnswers,
                           hiringPlan, activeTools, toolExecutionLog,
                           showToolVisualization, analyzedRole>>
       ELSE IF NeedsClarificationStep(resp)
       THEN /\ clarificationQuestions' = resp.questions
            /\ currentStep' = 1
            /\ loading' = FALSE
            /\ analyzedRole' = runs[r].analyzed
            /\ runs' = [runs EXCEPT ![r] = IdleRun]
            /\ UNCHANGED <<roleDescription, clarificationAnswers, hiringPlan,
                           error, activeTools, toolExecutionLog,
                           showToolVisualization>>
       ELSE /\ StartPlan(r, "bypass", PlanRole(runs[r]),
                         BypassAnswers(runs[r]), runs[r].analyzed)
            /\ UNCHANGED <<currentStep, roleDescription,
                           clarificationQuestions, clarificationAnswers,
                           hiringPlan, analyzedRole>>

\* createHiringPlan after the simulated delay of step k: the step is logged
\* completed; then the next step starts, or after the last step the
\* request POST /api/create-hiring-plan is sent
PlanToolDone(r) ==
    LET k == runs[r].k
        tool == toolSequence[k]
        active1 == SimEndActive(activeTools, tool)
        log1 == SimEndLog(toolExecutionLog, tool)
        hist1 == Append(runs[r].hist, <<tool.name, "completed">>)
        n == NextToolIndex(k)
    IN  /\ runs[r].pc = "tool"
        /\ UNCHANGED renderedStages
        /\ IF n \in 1..Len(toolSequence)
           THEN /\ activeTools' = SimStartActive(active1, toolSequence[n])
                /\ toolExecutionLog' = SimStartLog(log1, toolSequence[n])
                /\ runs' = [runs EXCEPT ![r].k = n,
                              ![r].hist = Append(hist1,
                                            <<toolSequence[n].name, "running">>)]
           ELSE /\ activeTools' = active1
                /\ toolExecutionLog' = log1
                /\ runs' = [runs EXCEPT ![r].pc = "planFetch",
                                        ![r].hist = hist1]
        /\ UNCHANGED <<currentStep, roleDescription, clarificationQuestions,
                       clarificationAnswers, hiringPlan, loading, error,
                       showToolVisualization, analyzedRole>>

\* The fetch a run is awaiting: analyzeRole's POST /api/analyze-role or
\* createHiringPlan's POST /api/create-hiring-plan, built from the arguments
\* the run was called with
RequestInFlight(run) ==
    IF run.pc = "analyzeFetch"
    THEN [endpoint |-> "analyze-role", role_description |-> run.role,
          query |-> [has_answers |-> FALSE, clarification_answers |-> <<>>]]
    ELSE [endpoint |-> "create-hiring-plan", role_description |-> run.role,
          query |-> CreatePlanQuery(run.answers)]

\* handleCreateHiringPlan after await createHiringPlan(...): try, catch and
\* finally (and, on the bypass path, the finally of handleRoleSubmit)
PlanResponse(r, resp) ==
    /\ UNCHANGED renderedStages
    /\ runs[r].pc = "planFetch"
    /\ IF ResponseFailed(resp)
       THEN /\ error' = PlanError
            /\ hiringPlan' = PlanAfterFailure(hiringPlan, resp)
            /\ UNCHANGED currentStep
       ELSE /\ hiringPlan' = StoredPlan(hiringPlan, resp)
            /\ currentStep' = 2
            /\ UNCHANGED error
    /\ loading' = FALSE
    /\ runs' = [runs EXCEPT ![r] = IF ResponseFailed(resp)
                                   THEN RunAfterFailure(runs[r])
                                   ELSE IdleRun]
    /\ UNCHANGED <<roleDescription, clarificationQuestions,
                   clarificationAnswers, activeTools, toolExecutionLog,
                   showToolVisualization, analyzedRole>>

-----------------------------------------------------------------------------

Next ==
    \/ \E t \in RoleTexts : EditRoleDescription(t)
    \/ \E t \in AnswerTexts : EditClarificationAnswers(t)
    \/ RoleSubmit
    \/ ClarificationSubmit
    \/ SkipQuestions
    \/ ResetFlow
    \/ \E r \in RunIds : AnalyzeToolDone(r)
    \/ \E r \in RunIds, resp \in AnalyzeResponses : AnalyzeResponse(r, resp)
    \/ \E r \in RunIds : PlanToolDone(r)
    \/ \E r \in RunIds, resp \in PlanResponses : PlanResponse(r, resp)

Spec == Init /\ [][Next]_vars

-----------------------------------------------------------------------------
(* Claims *)

\* A successful analysis: the response is OK and reading it does not throw
AnalysisSucceeded(resp) == ~ResponseFailed(resp) /\ ~AnalysisThrows(resp)

\* C1: after a submit whose analyze-role call succeeds, the clarification
\* step is entered (currentStep becomes 1 and the returned questions are
\* stored) exactly when the response has needs_clarification = true and a
\* non-empty questions list; in every other successful case the same run
\* starts plan generation at once and leaves the step and the questions
\* alone; and nothing but such a response ever moves the session to step 1.
C1_ClarificationIffNeeded ==
    [][ /\ \A r \in RunIds, resp \in AnalyzeResponses :
             (AnalyzeResponse(r, resp) /\ AnalysisSucceeded(resp)) =>
                 IF resp.needs_clarification /\ resp.questions # <<>>
                 THEN /\ currentStep' = 1
                      /\ clarificationQuestions' = resp.questions
                      /\ runs'[r].pc = "idle"
                 ELSE /\ runs'[r].pc = "tool"
                      /\ runs'[r].k = 1
                      /\ runs'[r].via = "bypass"
                      /\ currentStep' = currentStep
                      /\ clarificationQuestions' = clarificationQuestions
        /\ (currentStep # 1 /\ currentStep' = 1) =>
             \E r \in RunIds, resp \in AnalyzeResponses :
                 /\ AnalyzeResponse(r, resp)
                 /\ AnalysisSucceeded(resp)
                 /\ resp.needs_clarification
                 /\ resp.questions # <<>>
      ]_vars

\* C1 witness: a submit was analysed and the clarification step is shown with
\* the returned question
C1_Witness ==
    /\ currentStep = 1
    /\ clarificationQuestions = <<"q">>
    /\ analyzedRole = <<"x">>
    /\ ~loading

\* C2: in every reachable state, the clarification step is shown only with
\* a non-empty list of stored questions (an answer with needs_clarification
\* = true and zero questions never opens the step).
C2_StepOneHasQuestions ==
    currentStep = 1 => clarificationQuestions # <<>>

\* C2 witness: the clarification step is shown, with its questions, while a
\* plan run started from it is under way
C2_Witness ==
    /\ currentStep = 1
    /\ clarificationQuestions # <<>>
    /\ \E r \in RunIds : runs[r].pc = "tool" /\ runs[r].via = "answers"

PendingFetch(run) == run.pc \in {"analyzeFetch", "planFetch"}

\* C3: no analyze-role and no create-hiring-plan request is ever sent with
\* a role description that is empty after trimming.
C3_NoBlankRoleRequest ==
    \A r \in RunIds :
        PendingFetch(runs[r]) =>
            Trim(RequestInFlight(runs[r]).role_description) # EmptyText

IsPrefix(s, t) == Len(s) <= Len(t) /\ SubSeq(t, 1, Len(s)) = s

\* The entries one plan-generation run logs when its steps run one after
\* the other in registry order
RegistryOrderLog ==
    << <<"create_job_description", "running">>,
       <<"create_job_description", "completed">>,
       <<"suggest_sourcing_channels", "running">>,
       <<"suggest_sourcing_channels", "completed">>,
       <<"design_interview_process", "running">>,
       <<"design_interview_process", "completed">>,
       <<"create_hiring_plan_summary", "running">>,
       <<"create_hiring_plan_summary", "completed">> >>

InPlanRun(run) == run.pc \in {"tool", "planFetch"}

\* C4: within one plan-generation run the steps are invoked in the fixed
\* order create_job_description, suggest_sourcing_channels,
\* design_interview_process, create_hiring_plan_summary, each one logged
\* running only after the one before it was logged completed; the request
\* is sent when all four have completed.
C4_StepsInRegistryOrder ==
    \A r \in RunIds :
        InPlanRun(runs[r]) =>
            /\ IsPrefix(runs[r].hist, RegistryOrderLog)
            /\ runs[r].pc = "planFetch" => runs[r].hist = RegistryOrderLog
            /\ runs[r].pc = "tool" =>
                 runs[r].hist[Len(runs[r].hist)] =
                     <<toolSequence[runs[r].k].name, "running">>

\* C4 witness: a run has gone through all four steps and sent its request
C4_Witness ==
    \E r \in RunIds :
        runs[r].pc = "planFetch" /\ runs[r].hist = RegistryOrderLog

\* C5: at most one tool invocation is running at any moment and at most
\* one plan-generation run is in progress.
C5_NoParallelSteps ==
    /\ Len(activeTools) <= 1
    /\ Cardinality({r \in RunIds : InPlanRun(runs[r])}) <= 1

\* C6: a run whose create-hiring-plan call fails (rejected fetch or non-OK
\* response) leaves hiringPlan and currentStep as they were and sets a
\* non-empty error.
C6_FailedPlanStoresNothing ==
    [][ \A r \in RunIds, resp \in PlanResponses :
          (PlanResponse(r, resp) /\ resp.outcome # "ok") =>
              /\ hiringPlan' = hiringPlan
              /\ currentStep' = currentStep
              /\ currentStep' # 2 \/ currentStep = 2
              /\ error' # ""
      ]_vars

\* C6 witness: plan generation has failed: the error is shown, no plan is
\* stored and the session is still on the clarification step
C6_Witness ==
    /\ error = PlanError
    /\ hiringPlan = Null
    /\ currentStep = 1
    /\ \A r \in RunIds : runs[r].pc = "idle"

\* C7: when a plan-generation run fails, the tool log marks the failing
\* step 'failed'.
C7_FailedStepLogged ==
    [][ \A r \in RunIds, resp \in PlanResponses :
          (PlanResponse(r, resp) /\ resp.outcome # "ok") =>
              \E i \in DOMAIN toolExecutionLog' :
                  toolExecutionLog'[i].status = "failed"
      ]_vars

\* C8: a create-hiring-plan request triggered by Skip Questions never
\* carries a clarification_answers parameter.
C8_SkipOmitsAnswers ==
    \A r \in RunIds :
        (runs[r].pc = "planFetch" /\ runs[r].via = "skip") =>
            ~RequestInFlight(runs[r]).query.has_answers

\* C9: the role_description of a create-hiring-plan request is the
\* role_description that was sent in the analyze-role request of the same
\* session.
C9_RoleDescriptionImmutable ==
    \A r \in RunIds :
        runs[r].pc = "planFetch" =>
            RequestInFlight(runs[r]).role_description = runs[r].analyzed

\* C10: clarificationAnswers is empty whenever currentStep = 0, and the
\* create-hiring-plan request of a submit that bypassed clarification
\* carries no clarification_answers parameter.
C10_BypassHasNoAnswers ==
    /\ currentStep = 0 => clarificationAnswers = EmptyText
    /\ \A r \in RunIds :
         (runs[r].pc = "planFetch" /\ runs[r].via = "bypass") =>
             ~RequestInFlight(runs[r]).query.has_answers

\* C10 witness: a submit bypassed clarification and its request is in
\* flight, after an earlier session in which answers had been typed
C10_Witness ==
    /\ \E r \in RunIds : runs[r].pc = "planFetch" /\ runs[r].via = "bypass"
    /\ \E r \in RunIds : runs[r].pc = "tool" /\ runs[r].answers # EmptyText

\* C11: immediately after resetFlow the session is back at intake with
\* fresh data: currentStep = 0, the role description, the questions, the
\* answers and the error are empty, hiringPlan is null, and the tool
\* execution log and activeTools are empty.
C11_ResetClearsSession ==
    [][ ResetFlow =>
          /\ currentStep' = 0
          /\ roleDescription' = EmptyText
          /\ clarificationQuestions' = <<>>
          /\ clarificationAnswers' = EmptyText
          /\ hiringPlan' = Null
          /\ error' = ""
          /\ toolExecutionLog' = <<>>
          /\ activeTools' = <<>>
      ]_vars

\* A run started from the clarification step
StartedAtStepOne(run) == InPlanRun(run) /\ run.via \in {"answers", "skip"}

\* C11 witness: the session was reset (a run started at the clarification
\* step is still pending while the session is at intake) and every field
\* is fresh
C11_Witness ==
    /\ currentStep = 0
    /\ roleDescription = EmptyText
    /\ clarificationQuestions = <<>>
    /\ clarificationAnswers = EmptyText
    /\ hiringPlan = Null
    /\ error = ""
    /\ toolExecutionLog = <<>>
    /\ activeTools = <<>>
    /\ \E r \in RunIds : StartedAtStepOne(runs[r]) /\ runs[r].answers # EmptyText

\* C12: after resetFlow no result of a request started before the reset is
\* written into the new session: a run that was started at the
\* clarification step and is still pending when the session is back at
\* intake writes no plan, does not move the session to the plan step and
\* adds nothing to the tool log.
C12_SessionsIsolated ==
    [][ \A r \in RunIds :
          (currentStep = 0 /\ StartedAtStepOne(runs[r])) =>
              /\ PlanToolDone(r) => toolExecutionLog' = toolExecutionLog
              /\ \A resp \in PlanResponses :
                     PlanResponse(r, resp) =>
                         hiringPlan' = Null /\ currentStep' # 2
      ]_vars

\* Every field of the plan is present and non-null
PlanComplete(p) ==
    /\ p # Null
    /\ p.job_description # "<null>"
    /\ p.sourcing_channels # "<null>"
    /\ p.interview_stages.kind = "array"
    /\ p.final_plan_summary # "<null>"

\* C13: whenever the plan step is shown, the stored plan has all four
\* fields present and non-null.
C13_DisplayedPlanComplete ==
    currentStep = 2 => PlanComplete(hiringPlan)

\* A user submission: Analyze Role, Create Hiring Plan or Skip Questions
UserSubmission == RoleSubmit \/ ClarificationSubmit \/ SkipQuestions

\* C16: once a plan is displayed (currentStep = 2 with a stored plan), no
\* event other than resetFlow changes currentStep or the stored plan, and
\* a stored plan is never visible outside the plan step.
C16_CompleteIsTerminal ==
    [][ /\ (currentStep = 2 /\ hiringPlan # Null /\ ~ResetFlow) =>
              (currentStep' = 2 /\ hiringPlan' = hiringPlan)
        /\ hiringPlan' # Null => currentStep' = 2
      ]_vars

\* C18: no automatic retry.  A request is sent only by the run of a user
\* action, once: analyze-role when the run's analysis delay ends,
\* create-hiring-plan when its last step ends; a run begins only by a user
\* submission, never goes back to an earlier request, and after a failed
\* response it is over with no request of it in flight.
C18_NoAutomaticRetry ==
    [][ \A r \in RunIds :
          /\ (runs[r].pc = "idle" /\ runs'[r].pc # "idle") =>
                 (UserSubmission /\ runs'[r].pc \in {"analyzeTool", "tool"})
          /\ (runs[r].pc # "analyzeTool" /\ runs'[r].pc = "analyzeTool") =>
                 runs[r].pc = "idle"
          /\ (runs[r].pc # "analyzeFetch" /\ runs'[r].pc = "analyzeFetch") =>
                 runs[r].pc = "analyzeTool"
          /\ (runs[r].pc # "tool" /\ runs'[r].pc = "tool") =>
                 runs[r].pc \in {"idle", "analyzeFetch"}
          /\ (runs[r].pc # "planFetch" /\ runs'[r].pc = "planFetch") =>
                 runs[r].pc = "tool"
          /\ \A resp \in AnalyzeResponses :
                 (AnalyzeResponse(r, resp) /\ ~AnalysisSucceeded(resp)) =>
                     /\ runs'[r].pc = "idle"
                     /\ \A q \in RunIds \ {r} : runs'[q] = runs[q]
          /\ \A resp \in PlanResponses :
                 (PlanResponse(r, resp) /\ resp.outcome # "ok") =>
                     /\ runs'[r].pc = "idle"
                     /\ \A q \in RunIds \ {r} : runs'[q] = runs[q]
      ]_vars

\* C18 witness: an analysis has failed and nothing is pending or in flight
C18_Witness ==
    /\ error = AnalyzeError
    /\ ~loading
    /\ \A r \in RunIds : runs[r].pc = "idle"

\* C20: after a failed analysis or plan generation the error stays set and
\* currentStep is unchanged until the next user submission, and that
\* submission clears the error and empties the tool log before its first
\* entry is added.
C20_FailedUntilResubmit ==
    [][ error # "" =>
          IF UserSubmission
          THEN /\ error' = ""
               /\ Len(toolExecutionLog') = 1
               /\ toolExecutionLog'[1].status = "running"
          ELSE /\ error' = error
               /\ currentStep' = currentStep
      ]_vars

\* The <<tool, status>> pairs of a piece of the tool execution log
LogPairs(log) == [i \in 1..Len(log) |-> <<log[i].tool, log[i].status>>]

\* What sequence t has beyond its prefix s
Added(s, t) == SubSeq(t, Len(s) + 1, Len(t))

-----------------------------------------------------------------------------
(* Interview stage normalisation: formatInterviewStages and the rendering  *)
(* of the Interview Process section of the plan step                       *)

\* `Stage ${index + 1}`
StageLabel(n) == "Stage " \o ToString(n)

\* Faulty variant used to test C28: a stage object is given a numbered name too
FormatStage_Numbered(stage, index) ==
    IF stage.type = "string"
    THEN StageObject(StageLabel(index + 1), stage.str, <<>>)
    ELSE [stage EXCEPT !.stage_name = StageLabel(index + 1) \o ": " \o @]

\* Faulty variant used to test C14: the stage is numbered from zero
FormatStage_ZeroBased(stage, index) ==
    IF stage.type = "string"
    THEN StageObject(StageLabel(index), stage.str, <<>>)
    ELSE stage

\* The callback of stages.map: index is the 0-based position in the array
FormatStage(stage, index) ==
    IF stage.type = "string"
    THEN StageObject(StageLabel(index + 1), stage.str, <<>>)
    ELSE stage

\* !stages || !Array.isArray(stages)
NotAnArray(stages) ==
    stages.kind \in {"undefined", "null"} \/ stages.kind # "array"

formatInterviewStages(stages) ==
    IF NotAnArray(stages)
    THEN <<>>
    ELSE [i \in 1..Len(stages.items) |-> FormatStage(stages.items[i], i - 1)]

StageTexts == {"", "p"}

StageEntries ==
    {StageString(t) : t \in StageTexts}
    \cup {StageObject(n, t, q) :
            n \in {"", "n"}, t \in StageTexts, q \in {<<>>, <<"q">>}}

StageInputs ==
    {MissingStages, NonSequenceStages}
    \cup {StageArray(items) :
            items \in UNION {[1..k -> StageEntries] : k \in 0..MaxStages}}

\* The plan step is shown with a plan whose interview_stages is any of the
\* inputs
FormatInit ==
    /\ currentStep = 2
    /\ \E st \in StageInputs :
           hiringPlan = [CompletePlan EXCEPT !.interview_stages = st]
    /\ roleDescription = <<"x">>
    /\ clarificationQuestions = <<>>
    /\ clarificationAnswers = EmptyText
    /\ loading = FALSE
    /\ error = ""
    /\ activeTools = <<>>
    /\ toolExecutionLog = <<>>
    /\ showToolVisualization = TRUE
    /\ runs = [r \in RunIds |-> IdleRun]
    /\ analyzedRole = EmptyText
    /\ renderedStages = NotRendered

\* The render of step 2: formatInterviewStages(hiringPlan.interview_stages)
RenderStages ==
    /\ currentStep = 2
    /\ hiringPlan # Null
    /\ ~renderedStages.done
    /\ renderedStages' =
           [done |-> TRUE,
            stages |-> formatInterviewStages(hiringPlan.interview_stages)]
    /\ UNCHANGED <<currentStep, roleDescription, clarificationQuestions,
                   clarificationAnswers, hiringPlan, loading, error,
                   activeTools, toolExecutionLog, showToolVisualization,
                   runs, analyzedRole>>

FormatNext == RenderStages

FormatSpec == FormatInit /\ [][FormatNext]_vars

\* C14: for an array input the result has the same length and order; a
\* bare string at 0-based position i of the whole array becomes
\* {stage_name: "Stage {i+1}", purpose: the string, questions: []}; a stage
\* object is returned unchanged; a missing or non-array input yields [].
C14_StageNormalization ==
    renderedStages.done =>
        LET in == hiringPlan.interview_stages
            out == renderedStages.stages
        IN  IF in.kind = "array"
            THEN /\ Len(out) = Len(in.items)
                 /\ \A j \in 1..Len(in.items) :
                      IF in.items[j].type = "string"
                      THEN /\ out[j].stage_name = "Stage " \o ToString(j)
                           /\ out[j].purpose = in.items[j].str
                           /\ out[j].questions = <<>>
                           /\ out[j].type = "object"
                      ELSE out[j] = in.items[j]
            ELSE out = <<>>

\* C14 witness: a stage object followed by a bare string was rendered; the
\* string became "Stage 2"
C14_Witness ==
    /\ renderedStages.done
    /\ hiringPlan.interview_stages =
           StageArray(<<StageObject("n", "p", <<"q">>), StageString("p")>>)
    /\ renderedStages.stages =
           <<StageObject("n", "p", <<"q">>), StageObject("Stage 2", "p", <<>>)>>

\* C15: every interview stage, after normalisation, has a non-empty
\* stage_name and a non-empty purpose.
C15_StagesNamedAndPurposed ==
    renderedStages.done =>
        \A j \in 1..Len(renderedStages.stages) :
            /\ renderedStages.stages[j].stage_name # ""
            /\ renderedStages.stages[j].purpose # ""

-----------------------------------------------------------------------------
(* Sessions in which every external call resolves successfully: each       *)
(* pending timer fires and each request in flight is answered with 200     *)

SuccessfulAnalyzeResponses == {resp \in AnalyzeResponses : resp.outcome = "ok"}

SuccessfulPlanResponses == {resp \in PlanResponses : resp.outcome = "ok"}

AnalyzeResolves(r) ==
    \E resp \in SuccessfulAnalyzeResponses : AnalyzeResponse(r, resp)

PlanResolves(r) ==
    \E resp \in SuccessfulPlanResponses : PlanResponse(r, resp)

LiveNext ==
    \/ \E t \in RoleTexts : EditRoleDescription(t)
    \/ \E t \in AnswerTexts : EditClarificationAnswers(t)
    \/ RoleSubmit
    \/ ClarificationSubmit
    \/ SkipQuestions
    \/ ResetFlow
    \/ \E r \in RunIds : AnalyzeToolDone(r)
    \/ \E r \in RunIds : AnalyzeResolves(r)
    \/ \E r \in RunIds : PlanToolDone(r)
    \/ \E r \in RunIds : PlanResolves(r)

\* A setTimeout that was set fires, and a fetch that was sent is answered
Scheduling ==
    \A r \in RunIds :
        /\ WF_vars(AnalyzeToolDone(r))
        /\ WF_vars(AnalyzeResolves(r))
        /\ WF_vars(PlanToolDone(r))
        /\ WF_vars(PlanResolves(r))

LiveSpec == Init /\ [][LiveNext]_vars /\ Scheduling

\* A plan-generation run started by Skip Questions is pending
SkipRunPending == \E r \in RunIds : runs[r].via = "skip" /\ InPlanRun(runs[r])

\* C19: if the caller skips from the clarification step and every external
\* call eventually resolves successfully, the session eventually reaches
\* the plan step (currentStep = 2) with the returned plan stored.
C19_SkipReachesPlan ==
    SkipRunPending ~> (currentStep = 2 /\ hiringPlan \in PlanBodies)

\* C19 witness: Skip Questions was clicked at the clarification step with
\* no answers typed, the four steps have run and the request is in flight
C19_Witness ==
    /\ currentStep = 1
    /\ clarificationAnswers = EmptyText
    /\ hiringPlan = Null
    /\ \E r \in RunIds :
           /\ runs[r].via = "skip"
           /\ runs[r].pc = "planFetch"
           /\ runs[r].answers = EmptyText

-----------------------------------------------------------------------------
(* Sessions against a deterministic collaborator: the answer to            *)
(* POST /api/create-hiring-plan is a fixed function of the request         *)

\* The stub: one fixed body for each request (URL with or without the
\* clarification_answers parameter)
StubResponse(request) ==
    [outcome |-> "ok",
     body |-> IF request.query.has_answers THEN CompletePlan ELSE PartialPlan]

\* The response to run r's request arrives from the stub
StubPlanResponse(r) ==
    /\ runs[r].pc = "planFetch"
    /\ PlanResponse(r, StubResponse(RequestInFlight(runs[r])))

StubNext ==
    \/ \E t \in RoleTexts : EditRoleDescription(t)
    \/ \E t \in AnswerTexts : EditClarificationAnswers(t)
    \/ RoleSubmit
    \/ ClarificationSubmit
    \/ SkipQuestions
    \/ ResetFlow
    \/ \E r \in RunIds : AnalyzeToolDone(r)
    \/ \E r \in RunIds, resp \in AnalyzeResponses : AnalyzeResponse(r, resp)
    \/ \E r \in RunIds : PlanToolDone(r)
    \/ \E r \in RunIds : StubPlanResponse(r)

StubSpec == Init /\ [][StubNext]_vars

\* The plan the stub returns for a call createHiringPlan(role, answers)
PlanFor(role, answers) ==
    StubResponse([endpoint |-> "create-hiring-plan", role_description |-> role,
                  query |-> CreatePlanQuery(answers)]).body

-----------------------------------------------------------------------------
(* Claims on the session as a whole *)

\* C22: in every reachable state, if currentStep = 2 then hiringPlan is
\* non-null (a successful create-hiring-plan response being a non-null
\* value), across resets and late-arriving responses.
C22_PlanStepHasPlan ==
    currentStep = 2 => hiringPlan # Null

\* C22 witness: the plan step is shown with a plan written by a response
\* that arrived after resetFlow (the tool panel is still hidden, as the
\* reset left it, and no run was started since)
C22_Witness ==
    /\ currentStep = 2
    /\ hiringPlan \in PlanBodies
    /\ ~showToolVisualization
    /\ clarificationQuestions = <<>>

\* A call of analyzeRole or createHiringPlan has started and has neither
\* returned nor thrown
RunInProgress(run) == run.pc # "idle"

\* C23: in every reachable state with at least one analyzeRole or
\* createHiringPlan call in progress, loading = true.
C23_LoadingWhileRunning ==
    (\E r \in RunIds : RunInProgress(runs[r])) => loading

-----------------------------------------------------------------------------
(* Sessions in which every external call and every simulated delay         *)
(* resolves, with success or failure, and the caller eventually stops      *)

\* The response to run r's analyze-role request arrives, or the fetch rejects
AnalyzeReturns(r) == \E resp \in AnalyzeResponses : AnalyzeResponse(r, resp)

\* The response to run r's create-hiring-plan request arrives, or the
\* fetch rejects
PlanReturns(r) == \E resp \in PlanResponses : PlanResponse(r, resp)

\* A setTimeout that was set fires; a fetch that was sent resolves or rejects
Resolution ==
    \A r \in RunIds :
        /\ WF_vars(AnalyzeToolDone(r))
        /\ WF_vars(AnalyzeReturns(r))
        /\ WF_vars(PlanToolDone(r))
        /\ WF_vars(PlanReturns(r))

\* An event of the user: typing, a submission or the reset
UserEvent ==
    \/ \E t \in RoleTexts : EditRoleDescription(t)
    \/ \E t \in AnswerTexts : EditClarificationAnswers(t)
    \/ UserSubmission
    \/ ResetFlow

\* From some moment on the caller takes no further action
CallerStops == <>[][~UserEvent]_vars

TermSpec == Init /\ [][Next]_vars /\ Resolution /\ CallerStops

\* Nothing is pending, and the session shows what the operation came to
Quiescent ==
    /\ \A r \in RunIds : ~RunInProgress(runs[r])
    /\ ~loading
    /\ activeTools = <<>>
    /\ (currentStep = 2 \/ error # "" \/ currentStep = 1)

\* C24: every started operation terminates: if every external call and
\* every simulated delay eventually resolves (success or failure) and the
\* caller takes no further action, each submit, answer submission or skip
\* eventually reaches a quiescent state with loading = false, activeTools
\* empty, and either the plan step shown or a non-empty error set or the
\* clarification step shown.
C24_OperationsTerminate ==
    (\E r \in RunIds : RunInProgress(runs[r])) ~> Quiescent

\* C24 witness: a submit that bypassed clarification has failed at plan
\* generation: nothing is pending, loading is false, no tool is active, the
\* session is still at intake and the error is set
C24_Witness ==
    /\ Quiescent
    /\ currentStep = 0
    /\ error = PlanError
    /\ toolExecutionLog # <<>>

-----------------------------------------------------------------------------
(* Claims on failures and on the tool log *)

\* C25: if the analyze-role call of a submit fails (network error, non-OK
\* response, or needs_clarification = true without a questions list), no
\* create-hiring-plan request is sent for that submit, currentStep stays 0,
\* clarificationQuestions and hiringPlan are unchanged, and the analysis
\* error message is set.
C25_FailedAnalysisStaysAtIntake ==
    [][ \A r \in RunIds, resp \in AnalyzeResponses :
          (AnalyzeResponse(r, resp) /\ ~AnalysisSucceeded(resp)) =>
              /\ ~InPlanRun(runs'[r])
              /\ currentStep = 0
              /\ currentStep' = 0
              /\ clarificationQuestions' = clarificationQuestions
              /\ hiringPlan' = hiringPlan
              /\ error' = AnalyzeError
      ]_vars

\* The tools a log shows as completed
CompletedTools(log) ==
    {log[i].tool : i \in {j \in DOMAIN log : log[j].status = "completed"}}

\* The steps of a run that are logged running and not yet completed
RunningSteps(hist) ==
    {t \in {hist[i][1] : i \in DOMAIN hist} :
        Cardinality({i \in DOMAIN hist : hist[i] = <<t, "running">>}) >
        Cardinality({i \in DOMAIN hist : hist[i] = <<t, "completed">>})}

\* C26: within one plan-generation run the create-hiring-plan request is
\* sent only after all four steps have been logged 'completed'; the run's
\* request is never in flight while one of its steps is logged as running;
\* and the log shows four completed steps when the response arrives,
\* whether the request succeeds or fails.
C26_RequestAfterFourCompleted ==
    [][ /\ \A r \in RunIds :
             runs[r].pc = "planFetch" =>
                 /\ \A k \in DOMAIN toolSequence :
                        \E i \in DOMAIN runs[r].hist :
                            runs[r].hist[i] = <<toolSequence[k].name, "completed">>
                 /\ RunningSteps(runs[r].hist) = {}
        /\ \A r \in RunIds, resp \in PlanResponses :
             PlanResponse(r, resp) =>
                 /\ {toolSequence[k].name : k \in DOMAIN toolSequence}
                        \subseteq CompletedTools(toolExecutionLog)
                 /\ {toolSequence[k].name : k \in DOMAIN toolSequence}
                        \subseteq CompletedTools(toolExecutionLog')
      ]_vars

\* C27: in every reachable state of the tool execution log, each
\* 'completed' entry for a tool is preceded in the log by a 'running' entry
\* for the same tool, overlapping runs and resets included.
C27_CompletedAfterRunning ==
    \A i \in DOMAIN toolExecutionLog :
        toolExecutionLog[i].status = "completed" =>
            \E j \in 1..(i - 1) :
                /\ toolExecutionLog[j].tool = toolExecutionLog[i].tool
                /\ toolExecutionLog[j].status = "running"

-----------------------------------------------------------------------------
(* Claims on formatInterviewStages as a function *)

\* The array formatInterviewStages returned, given to it again
Reformatted(stages) == formatInterviewStages(StageArray(stages))

\* C28: formatInterviewStages is idempotent: for every input sequence of
\* bare strings and structured stage objects, applying the normalisation
\* to its own output returns the same sequence of stages.
C28_FormatIdempotent ==
    renderedStages.done =>
        Reformatted(renderedStages.stages) = renderedStages.stages

\* C28 witness: a bare string followed by a stage object was normalised
\* (the string was replaced by a stage object) and normalising the result
\* again gives the same two stages
C28_Witness ==
    /\ renderedStages.done
    /\ hiringPlan.interview_stages =
           StageArray(<<StageString("p"), StageObject("n", "p", <<"q">>)>>)
    /\ renderedStages.stages[1] = StageObject("Stage 1", "p", <<>>)
    /\ Reformatted(renderedStages.stages) = renderedStages.stages

====
